---- MODULE Spec2Model ----
(***************************************************************************)
(* HearLanguages: the content downloader (two versions of                  *)
(* src/hooks/useDownloader.js), the zustand store it writes to, the local  *)
(* file system and the remote origin it reads from.                        *)
(***************************************************************************)
EXTENDS Integers, Sequences, FiniteSets, TLC

VARIABLES
  variant,            \* which version of useDownloader.js the build holds
  learningLang,       \* store.learningLang
  knownLang,          \* store.knownLang
  difficulty,         \* store.difficulty
  downloadProgress,   \* store.downloadProgress: key -> percent
  downloadedBatches,  \* store.downloadedBatches: an array of keys
  isDownloading,      \* the hook's React state
  seenDownloading,    \* isDownloading as captured by the rendered closures
  rootManifest,       \* downloader.rootManifest is loaded
  languageManifests,  \* downloader.languageManifests: the cached languages
  dlBatches,          \* downloader.downloadedBatches (a Set)
  downloadedCSVs,     \* downloader.downloadedCSVs (a Set)
  fs,                 \* the local file system: path -> content
  fetched,            \* origin: manifest url -> number of successful fetches
  run,                \* the state of each call of the hook's functions
  calls,              \* calls made so far
  faults              \* faults the environment has injected so far

vars == <<variant, learningLang, knownLang, difficulty, downloadProgress,
          downloadedBatches, isDownloading, seenDownloading, rootManifest,
          languageManifests, dlBatches, downloadedCSVs, fs, fetched, run,
          calls, faults>>

storeVars == <<learningLang, knownLang, difficulty, downloadProgress, downloadedBatches>>

\* ------------------------------------------------------------------ bounds

MaxCalls == 2
MaxFaults == 1
MaxAttempts == 5

\* ------------------------------------------------------- program constants

MAX_CONCURRENT_DOWNLOADS == 3
PACK_MAX_CONCURRENT_DOWNLOADS == 3
RETRY_ATTEMPTS == 3
RETRY_DELAY == 1000

Null == "null"
NoSha == "none"

\* ----------------------------------------------------------------- strings

CharAt(s, i) == SubSeq(s, i, i)

RECURSIVE IndexFrom(_, _, _)
\* The first index >= i at which pat occurs in s, 0 when there is none.
IndexFrom(s, pat, i) ==
  IF i + Len(pat) - 1 > Len(s) THEN 0
  ELSE IF SubSeq(s, i, i + Len(pat) - 1) = pat THEN i
  ELSE IndexFrom(s, pat, i + 1)

RECURSIVE Split(_, _)
\* String.prototype.split on a one-character separator.
Split(s, sep) ==
  LET k == IndexFrom(s, sep, 1) IN
  IF k = 0 THEN <<s>>
  ELSE <<SubSeq(s, 1, k - 1)>> \o Split(SubSeq(s, k + 1, Len(s)), sep)

\* String.prototype.replace with a string pattern: the first occurrence only.
Replace(s, pat, rep) ==
  LET k == IndexFrom(s, pat, 1) IN
  IF k = 0 THEN s
  ELSE SubSeq(s, 1, k - 1) \o rep \o SubSeq(s, k + Len(pat), Len(s))

RECURSIVE StripLeadingZeros(_)
\* s.replace(/^0+/, '')
StripLeadingZeros(s) ==
  IF Len(s) > 0 /\ CharAt(s, 1) = "0" THEN StripLeadingZeros(Tail(s)) ELSE s

RECURSIVE PadStart(_, _, _)
\* s.padStart(n, c) for a one-character c
PadStart(s, n, c) == IF Len(s) >= n THEN s ELSE PadStart(c \o s, n, c)

\* -------------------------------------------------------------- path mapper

getBatchNumber(batch) == IF batch = "batch01" THEN "batch001" ELSE batch

convertBatchToAppFormat(batch) ==
  PadStart(StripLeadingZeros(Replace(batch, "batch", "")), 2, "0")

TypeError == "TypeError"

\* parts[i] of a JavaScript array (0-based), "undefined" past its end.
Part(parts, i) == IF i + 1 <= Len(parts) THEN parts[i + 1] ELSE "undefined"

\* mapFileToAppStructure with language read from parts[0].
mapFileLanguageFromRoot(file, batch) ==
  LET parts == Split(file.path, "/")
      language == Part(parts, 0)
      diff == Part(parts, 2)
      contentType == Part(parts, 5)
      filename == Part(parts, 6)
  IN
  IF Len(parts) < 4 THEN TypeError
  ELSE
  LET appBatchName == "batch" \o convertBatchToAppFormat(Part(parts, 3)) IN
  IF contentType = "sentences" THEN
    IF Len(parts) < 7 THEN TypeError
    ELSE "sentences/" \o appBatchName \o "/" \o Replace(filename, ".mp3", "")
           \o "/" \o diff \o "/" \o language \o ".mp3"
  ELSE IF contentType = "words" THEN
    "words/" \o language \o "/" \o filename
  ELSE IF contentType = "pictures" THEN
    IF Len(parts) < 7 THEN TypeError
    ELSE "pictures/" \o appBatchName \o "/" \o Replace(filename, ".mp3", "")
           \o "/" \o diff \o "/" \o language \o ".mp3"
  ELSE file.path

mapFileToAppStructure(file, batch) ==
  LET parts == Split(file.path, "/")
      language == Part(parts, 1)
      diff == Part(parts, 2)
      contentType == Part(parts, 5)
      filename == Part(parts, 6)
  IN
  IF Len(parts) < 4 THEN TypeError   \* undefined.replace(...) throws
  ELSE
  LET appBatchName == "batch" \o convertBatchToAppFormat(Part(parts, 3)) IN
  IF contentType = "sentences" THEN
    IF Len(parts) < 7 THEN TypeError
    ELSE "sentences/" \o appBatchName \o "/" \o Replace(filename, ".mp3", "")
           \o "/" \o diff \o "/" \o language \o ".mp3"
  ELSE IF contentType = "words" THEN
    "words/" \o language \o "/" \o filename
  ELSE IF contentType = "pictures" THEN
    IF Len(parts) < 7 THEN TypeError
    ELSE "pictures/" \o appBatchName \o "/" \o Replace(filename, ".mp3", "")
           \o "/" \o diff \o "/" \o language \o ".mp3"
  ELSE file.path

documentDirectory == "doc/"

\* ------------------------------------------------------------------- origin
\* What the remote origin serves: the root manifest, the language manifests
\* and the batch manifests, with the files each batch lists.

OriginRootLanguages == {"ja", "en"}

OriginDifficulties(lang) == {"A1"}

manifestTypes == <<"sentences", "words", "pictures">>

\* languageManifest.difficulties[diff]: content type -> batches
OriginLanguageContent(lang) ==
  IF lang = "ja"
  THEN [sentences |-> <<"batch001">>, words |-> <<"batch001">>, pictures |-> <<"batch001">>]
  ELSE [sentences |-> <<"batch001">>, words |-> <<"batch001">>]

OriginSha(path) == "sha:" \o path

FileEntry(lang, type, name, withSha) ==
  LET p == "languages/" \o lang \o "/A1/batch001/audio/" \o type \o "/" \o name IN
  [path |-> p, sha256 |-> IF withSha THEN OriginSha(p) ELSE NoSha]

OriginHasBatch(lang, diff, type, batch) ==
  /\ lang \in OriginRootLanguages
  /\ diff \in OriginDifficulties(lang)
  /\ type \in DOMAIN OriginLanguageContent(lang)
  /\ \E i \in DOMAIN OriginLanguageContent(lang)[type] :
        OriginLanguageContent(lang)[type][i] = batch

\* batchManifest.files. The pictures manifest of ja carries an entry outside the
\* languages/<lang>/<difficulty>/<batch>/audio/<type>/<file> layout; the words
\* manifest of en lists no file.
OriginBatchFiles(lang, diff, type, batch) ==
  IF lang = "ja" /\ type = "sentences"
  THEN << FileEntry(lang, type, "sent_001.mp3", TRUE),
          FileEntry(lang, type, "sent_002.mp3", FALSE),
          FileEntry(lang, type, "sent_003.mp3", TRUE),
          FileEntry(lang, type, "sent_004.mp3", FALSE) >>
  ELSE IF lang = "ja" /\ type = "words"
  THEN << FileEntry(lang, type, "w_001.mp3", TRUE) >>
  ELSE IF lang = "ja" /\ type = "pictures"
  THEN << FileEntry(lang, type, "pic_001.mp3", TRUE),
          [path |-> "readme.txt", sha256 |-> NoSha] >>
  ELSE IF type = "sentences"
  THEN << FileEntry(lang, type, "sent_001.mp3", TRUE) >>
  ELSE << >>

RootManifestUrl == "manifests/root_manifest.json"
LanguageManifestUrl(lang) == "manifests/languages/" \o lang \o "_manifest.json"
BatchManifestUrl(lang, diff, type, batch) ==
  "manifests/batches/" \o diff \o "_" \o type \o "_" \o lang \o "_" \o batch
     \o "_manifest.json"

\* Crypto.digestStringAsync over what the file holds: the origin's bytes hash
\* to the origin's digest, anything else to another one.
Digest(path, content) == IF content = "good" THEN OriginSha(path) ELSE "sha:damaged"

\* readAsStringAsync(filePath, {encoding: Base64}): the bytes, encoded.
Base64(content) == "base64:" \o content

\* verifyFile(filePath, expectedSha256) of the content manager: the file
\* exists and the digest of its Base64 text === expectedSha256 (undefined, here
\* NoSha, when the manifest entry has none). name is the path the origin
\* publishes the file's digest under.
verifyFile(filePath, name, expectedSha256) ==
  /\ filePath \in DOMAIN fs
  /\ Digest(name, Base64(fs[filePath])) = expectedSha256

\* -------------------------------------------------------------------- store

Range(f) == {f[x] : x \in DOMAIN f}

SetKey(f, k, v) == [x \in DOMAIN f \cup {k} |-> IF x = k THEN v ELSE f[x]]

updateDownloadProgress(progress, batchKey, percent) == SetKey(progress, batchKey, percent)

markBatchDownloaded(batches, batchKey) == Append(batches, batchKey)

getBatchKey(lang, diff, batch) == lang \o "_" \o diff \o "_" \o batch

isBatchDownloaded(lang, diff, batch) ==
  getBatchKey(lang, diff, batch) \in Range(downloadedBatches)

getDownloadProgress(lang, diff, batch) ==
  LET k == getBatchKey(lang, diff, batch) IN
  IF k \in DOMAIN downloadProgress THEN downloadProgress[k] ELSE 0

\* --------------------------------------------------------------------- runs

\* The calls of the hook's functions the state holds: one at a time in Spec,
\* two that may overlap in SpecTwo.
Runs == DOMAIN run

IdleRun ==
  [op |-> "idle", pc |-> "idle", target |-> Null, tdiff |-> Null, batch |-> Null,
   langs |-> <<>>, li |-> 0, work |-> <<>>, wi |-> 0, csvi |-> 0, ti |-> 0,
   files |-> <<>>, ci |-> 0, fstat |-> <<>>, attempts |-> <<>>,
   completed |-> 0, errors |-> <<>>, reqs |-> 0, rerun |-> FALSE, result |-> "none",
   packs |-> <<>>, merr |-> "none", mtries |-> 0, cancelled |-> FALSE]

EmptyMap == [x \in {} |-> 0]

Init ==
  /\ variant \in {"hier", "pack"}
  /\ learningLang = Null
  /\ knownLang = Null
  /\ difficulty = "A1"
  /\ downloadProgress = EmptyMap
  /\ downloadedBatches = <<>>
  /\ isDownloading = FALSE
  /\ seenDownloading = FALSE
  /\ rootManifest = FALSE
  /\ languageManifests = {}
  /\ dlBatches = {}
  /\ downloadedCSVs = {}
  /\ fs = EmptyMap
  /\ fetched = EmptyMap
  /\ run = [r \in {1} |-> IdleRun]
  /\ calls = 0
  /\ faults = 0

\* ---------------------------------------------------------------- helpers

downloaderVars == <<rootManifest, languageManifests, dlBatches, downloadedCSVs>>

Free(r) ==
  /\ run[r].pc \in {"idle", "done"}
  /\ \A p \in DOMAIN run[r].packs : \A i \in DOMAIN run[r].packs[p].fstat :
        run[r].packs[p].fstat[i] \notin {"mkdir", "transfer"}
  /\ \A q \in Runs : q < r => run[q].pc \notin {"idle", "done"}

SetRun(r, rec) == run' = [run EXCEPT ![r] = rec]

Active(r) == run[r].pc \notin {"idle", "done"}

\* What is left of a call once it has returned or thrown.
Finished(rec, result) ==
  [IdleRun EXCEPT !.op = rec.op, !.pc = "done", !.result = result, !.batch = rec.batch,
                  !.target = rec.target, !.tdiff = rec.tdiff, !.files = rec.files,
                  !.langs = rec.langs,
                  !.completed = rec.completed, !.errors = rec.errors,
                  !.reqs = rec.reqs, !.rerun = rec.rerun, !.packs = rec.packs,
                  !.merr = rec.merr, !.mtries = rec.mtries]

\* The environment injects a fault only while its budget lasts.
Inject(isFault) ==
  IF isFault THEN faults < MaxFaults /\ faults' = faults + 1 ELSE faults' = faults

\* What a fetch of a manifest can answer: "ok" only if the origin serves it.
FetchOutcomes(served) == IF served THEN {"ok", "fail"} ELSE {"fail"}

\* What downloadBatchManifest's fetch can answer: a manifest, a network
\* failure or a non-ok status ("fail"), or a 200 whose body response.json()
\* cannot parse.
ManifestOutcomes(served) == IF served THEN {"ok", "fail", "malformed"} ELSE {"fail"}

\* downloadBatchManifest threw: what failed, and after how many fetches.
ManifestFailed(rec, out, served) ==
  [rec EXCEPT !.merr = IF out = "malformed" THEN "Malformed"
                       ELSE IF served THEN "Network" ELSE "NotFound",
              !.mtries = 1]

Bump(f, k) == SetKey(f, k, (IF k \in DOMAIN f THEN f[k] ELSE 0) + 1)

\* `${lang}_${targetDifficulty}_${contentType}_${batch}`
ContentBatchId(lang, diff, type, batch) ==
  lang \o "_" \o diff \o "_" \o type \o "_" \o batch

\* The (contentType, batch) pairs the loops of downloadContentForLanguage visit.
RECURSIVE WorkFrom(_, _)
WorkFrom(content, ti) ==
  IF ti > Len(manifestTypes) THEN <<>>
  ELSE (IF manifestTypes[ti] \in DOMAIN content
        THEN [i \in 1..Len(content[manifestTypes[ti]]) |->
                 <<manifestTypes[ti], content[manifestTypes[ti]][i]>>]
        ELSE <<>>) \o WorkFrom(content, ti + 1)

\* The batch keys a run of downloadContentForLanguage over langs is to mark.
ContentKeys(langs, diff) ==
  UNION { { ContentBatchId(l, diff, w[1], w[2]) :
              w \in Range(WorkFrom(OriginLanguageContent(l), 1)) } :
          l \in {x \in Range(langs) : x \in OriginRootLanguages} }

LocalPath(file, batch) == documentDirectory \o mapFileToAppStructure(file, batch)

Settled(st) == st \notin {"queued", "mkdir", "transfer"}

InFlight(rec) == {i \in DOMAIN rec.fstat : rec.fstat[i] \in {"mkdir", "transfer"}}

\* Chunk with the slice's end left out: files.slice(i).
ChunkToEnd(rec) == {i \in DOMAIN rec.files : rec.ci <= i}

\* chunk = files.slice(i, i + MAX_CONCURRENT_DOWNLOADS), as indices
Chunk(rec) == {i \in DOMAIN rec.files : rec.ci <= i /\ i < rec.ci + MAX_CONCURRENT_DOWNLOADS}

\* ------------------------------------------------- store and React actions

setLanguagePair(learning, known) ==
  /\ learningLang = Null
  /\ calls = 0
  /\ learningLang' = learning
  /\ knownLang' = known
  /\ UNCHANGED <<variant, difficulty, downloadProgress, downloadedBatches, isDownloading,
                 seenDownloading, downloaderVars, fs, fetched, run, calls, faults>>

\* store.clearAllContent
clearAllContent ==
  /\ downloadedBatches # <<>> \/ downloadProgress # EmptyMap
  /\ \A r \in Runs : ~Active(r)
  /\ downloadProgress' = EmptyMap
  /\ downloadedBatches' = <<>>
  /\ UNCHANGED <<variant, learningLang, knownLang, difficulty, isDownloading,
                 seenDownloading, downloaderVars, fs, fetched, run, calls, faults>>

\* React renders the component again: its closures see the current state.
Rerender ==
  /\ seenDownloading # isDownloading
  /\ seenDownloading' = isDownloading
  /\ UNCHANGED <<variant, storeVars, isDownloading, downloaderVars, fs, fetched, run,
                 calls, faults>>

\* ------------------------------------- downloadAndMapFile (one file's steps)

\* chunk.map(file => downloadAndMapFile(file, batch)): every file of the chunk
\* runs to its first await (makeDirectoryAsync); a path the mapper throws on
\* rejects at once.
Dispatch(rec) ==
  [rec EXCEPT !.pc = "await",
              !.fstat = [i \in DOMAIN rec.fstat |->
                           IF i \in Chunk(rec)
                           THEN (IF mapFileToAppStructure(rec.files[i], rec.batch) = TypeError
                                 THEN "Mapping" ELSE "mkdir")
                           ELSE rec.fstat[i]],
              !.errors = rec.errors \o
                 (IF rec.op = "batch"
                  THEN SelectSeq([i \in 1..Len(rec.files) |->
                                   IF i \in Chunk(rec) /\
                                      mapFileToAppStructure(rec.files[i], rec.batch) = TypeError
                                   THEN rec.files[i].path ELSE ""],
                                 LAMBDA x : x # "")
                  ELSE <<>>)]

\* Settle with completed++ moved out of the try: every file counts.
SettleCountsEvery(rec, i, st) ==
  [rec EXCEPT !.fstat[i] = st,
              !.completed = IF rec.op = "batch" THEN @ + 1 ELSE @,
              !.errors = IF rec.op = "batch" /\ st # "ok"
                         THEN Append(@, rec.files[i].path) ELSE @]

\* The try/catch around one file: completed++ or errors.push (downloadBatch),
\* a logged error (downloadContentForLanguage).
Settle(rec, i, st) ==
  [rec EXCEPT !.fstat[i] = st,
              !.completed = IF rec.op = "batch" /\ st = "ok" THEN @ + 1 ELSE @,
              !.errors = IF rec.op = "batch" /\ st # "ok"
                         THEN Append(@, rec.files[i].path) ELSE @]

\* await FileSystem.makeDirectoryAsync(dirPath) returns, or throws.
FileMkdir(r, i, out) ==
  LET rec == run[r] IN
  /\ variant = "hier"
  /\ rec.pc = "await"
  /\ i \in DOMAIN rec.fstat /\ rec.fstat[i] = "mkdir"
  /\ Inject(out # "ok")
  /\ IF out = "ok"
     THEN /\ SetRun(r, [rec EXCEPT !.fstat[i] = "transfer", !.attempts[i] = @ + 1,
                                   !.reqs = @ + 1])
          /\ fs' = SetKey(fs, LocalPath(rec.files[i], rec.batch), "partial")
     ELSE /\ SetRun(r, Settle(rec, i, "Storage"))
          /\ fs' = fs
  /\ UNCHANGED <<variant, storeVars, isDownloading, seenDownloading, downloaderVars,
                 fetched, calls>>

\* await FileSystem.downloadAsync(fileUrl, localPath) returns or throws; then the
\* status check and getInfoAsync.
FileTransfer(r, i, out) ==
  LET rec == run[r]
      path == LocalPath(rec.files[i], rec.batch)
  IN
  /\ variant = "hier"
  /\ rec.pc = "await"
  /\ i \in DOMAIN rec.fstat /\ rec.fstat[i] = "transfer"
  /\ Inject(out # "ok")
  /\ fs' = CASE out = "ok" -> SetKey(fs, path, "good")
            [] out \in {"corrupt", "http5xx"} -> SetKey(fs, path, "corrupt")
            [] OTHER -> fs
  /\ SetRun(r, Settle(rec, i,
                CASE out = "ok" -> "ok"
                  [] out = "corrupt" -> "ok"        \* status 200: nothing compares the sha256
                  [] out = "http5xx" -> "Http5xx"
                  [] OTHER -> "Network"))
  /\ UNCHANGED <<variant, storeVars, isDownloading, seenDownloading, downloaderVars,
                 fetched, calls>>

\* await Promise.allSettled(chunk...) returns: the loop moves to the next chunk.
ChunkDone(r) ==
  LET rec == run[r] IN
  /\ variant = "hier"
  /\ rec.pc = "await"
  /\ \A i \in Chunk(rec) : Settled(rec.fstat[i])
  /\ SetRun(r, [rec EXCEPT !.pc = "chunk", !.ci = @ + MAX_CONCURRENT_DOWNLOADS])
  /\ UNCHANGED <<variant, storeVars, isDownloading, seenDownloading, downloaderVars,
                 fs, fetched, calls, faults>>

\* The caller gives the run up (its screen is left, its component unmounts)
\* while files of the batch still wait. The hook returns no handle to stop a
\* run and reads no signal: the step only records that the caller has.
CallerCancels(r) ==
  LET rec == run[r] IN
  /\ variant = "hier"
  /\ rec.pc = "await" /\ ~rec.cancelled
  /\ \E i \in DOMAIN rec.fstat : rec.fstat[i] = "queued"
  /\ SetRun(r, [rec EXCEPT !.cancelled = TRUE])
  /\ UNCHANGED <<variant, storeVars, isDownloading, seenDownloading, downloaderVars,
                 fs, fetched, calls, faults>>

\* ------------------------------------------------ downloadContentForLanguage

CallTargets == {"ja", "fr"}

CallDifficulties == {"A1", "B1"}

csvNames == <<"sentences_batch01_v1.csv", "words_v1.csv", "pictures_batch01_v1.csv">>

downloadContentForLanguage(r, targetLanguage, targetDifficulty) ==
  LET langs == IF knownLang # Null /\ knownLang # targetLanguage
               THEN <<targetLanguage, knownLang>> ELSE <<targetLanguage>>
      keys == ContentKeys(langs, targetDifficulty)
      rec == [IdleRun EXCEPT !.op = "content", !.target = targetLanguage,
                             !.tdiff = targetDifficulty,
                             !.rerun = keys # {} /\ keys \subseteq Range(downloadedBatches)]
  IN
  /\ variant = "hier"
  /\ Free(r)
  /\ calls < MaxCalls
  /\ calls' = calls + 1
  /\ IF seenDownloading
     THEN /\ SetRun(r, Finished(rec, "skipped"))
          /\ isDownloading' = isDownloading
     ELSE /\ SetRun(r, [rec EXCEPT !.pc = "root", !.langs = langs, !.li = 1])
          /\ isDownloading' = TRUE
  /\ UNCHANGED <<variant, storeVars, seenDownloading, downloaderVars, fs, fetched, faults>>

\* The catch of downloadContentForLanguage.
ContentThrow(r, rec) ==
  /\ SetRun(r, Finished(rec, "error"))
  /\ downloadProgress' = updateDownloadProgress(downloadProgress, "hierarchical", 0)
  /\ isDownloading' = FALSE
  /\ UNCHANGED <<downloadedBatches>>

\* ContentRoot without the language and difficulty checks of step 2.
ContentRootUnchecked(r, out) ==
  LET rec == run[r]
      lang == rec.langs[rec.li]
      fetch == ~rootManifest
      rec2 == [rec EXCEPT !.reqs = IF fetch THEN @ + 1 ELSE @]
  IN
  /\ variant = "hier"
  /\ rec.op = "content" /\ rec.pc = "root"
  /\ out \in (IF fetch THEN FetchOutcomes(TRUE) ELSE {"cached"})
  /\ Inject(out = "fail")
  /\ rootManifest' = (rootManifest \/ out = "ok")
  /\ fetched' = IF out = "ok" THEN Bump(fetched, RootManifestUrl) ELSE fetched
  /\ IF out # "fail"
     THEN /\ SetRun(r, [rec2 EXCEPT !.pc = "csv", !.csvi = 1])
          /\ UNCHANGED <<downloadProgress, downloadedBatches, isDownloading>>
     ELSE ContentThrow(r, rec2)
  /\ UNCHANGED <<variant, learningLang, knownLang, difficulty, seenDownloading,
                 languageManifests, dlBatches, downloadedCSVs, fs, calls>>

\* Steps 1 and 2 of the loop over langsToDownload: the root manifest (fetched
\* when the downloader holds none) and the language and difficulty checks.
ContentRoot(r, out) ==
  LET rec == run[r]
      lang == rec.langs[rec.li]
      fetch == ~rootManifest
      rec2 == [rec EXCEPT !.reqs = IF fetch THEN @ + 1 ELSE @]
  IN
  /\ variant = "hier"
  /\ rec.op = "content" /\ rec.pc = "root"
  /\ out \in (IF fetch THEN FetchOutcomes(TRUE) ELSE {"cached"})
  /\ Inject(out = "fail")
  /\ rootManifest' = (rootManifest \/ out = "ok")
  /\ fetched' = IF out = "ok" THEN Bump(fetched, RootManifestUrl) ELSE fetched
  /\ IF out # "fail" /\ lang \in OriginRootLanguages
        /\ rec.tdiff \in OriginDifficulties(lang)
     THEN /\ SetRun(r, [rec2 EXCEPT !.pc = "csv", !.csvi = 1])
          /\ UNCHANGED <<downloadProgress, downloadedBatches, isDownloading>>
     ELSE ContentThrow(r, rec2)
  /\ UNCHANGED <<variant, learningLang, knownLang, difficulty, seenDownloading,
                 languageManifests, dlBatches, downloadedCSVs, fs, calls>>

\* One turn of the loop of downloadCSVFiles: a CSV already downloaded is
\* skipped, another is fetched; a failure is logged and the loop goes on.
downloadCSVFiles(r, out) ==
  LET rec == run[r]
      lang == rec.langs[rec.li]
      name == csvNames[rec.csvi]
      csvKey == lang \o "_" \o rec.tdiff \o "_" \o name
      have == csvKey \in downloadedCSVs
      next == IF rec.csvi = Len(csvNames)
              THEN [rec EXCEPT !.pc = "langman", !.csvi = 0]
              ELSE [rec EXCEPT !.csvi = @ + 1]
  IN
  /\ variant = "hier"
  /\ rec.op = "content" /\ rec.pc = "csv"
  /\ out \in (IF have THEN {"skip"} ELSE FetchOutcomes(TRUE))
  /\ Inject(out = "fail")
  /\ downloadedCSVs' = IF out = "ok" THEN downloadedCSVs \cup {csvKey} ELSE downloadedCSVs
  /\ fs' = IF out = "ok"
           THEN SetKey(fs, documentDirectory \o "csv/batch01/" \o name, "good") ELSE fs
  /\ SetRun(r, [next EXCEPT !.reqs = IF have THEN @ ELSE @ + 1])
  /\ UNCHANGED <<variant, storeVars, isDownloading, seenDownloading, rootManifest,
                 languageManifests, dlBatches, fetched, calls>>

\* Step 3: downloadLanguageManifest (cached by language) and difficultyInfo.
downloadLanguageManifest(r, out) ==
  LET rec == run[r]
      lang == rec.langs[rec.li]
      fetch == lang \notin languageManifests
      rec2 == [rec EXCEPT !.reqs = IF fetch THEN @ + 1 ELSE @]
  IN
  /\ variant = "hier"
  /\ rec.op = "content" /\ rec.pc = "langman"
  /\ out \in (IF fetch THEN FetchOutcomes(TRUE) ELSE {"cached"})
  /\ Inject(out = "fail")
  /\ languageManifests' = IF out = "ok" THEN languageManifests \cup {lang}
                          ELSE languageManifests
  /\ fetched' = IF out = "ok" THEN Bump(fetched, LanguageManifestUrl(lang)) ELSE fetched
  /\ IF out # "fail"
     THEN /\ SetRun(r, [rec2 EXCEPT !.pc = "batch", !.wi = 1,
                                    !.work = WorkFrom(OriginLanguageContent(lang), 1)])
          /\ UNCHANGED <<downloadProgress, downloadedBatches, isDownloading>>
     ELSE ContentThrow(r, rec2)
  /\ UNCHANGED <<variant, learningLang, knownLang, difficulty, seenDownloading,
                 rootManifest, dlBatches, downloadedCSVs, fs, calls>>

\* Step 4, one turn of the loop over the batches: the skip check, then
\* downloadBatchManifest; after the last batch, the next language or the end
\* of the run ('hierarchical' marked, progress 100).
ContentBatch(r, out) ==
  LET rec == run[r]
      lang == rec.langs[rec.li]
      more == rec.wi <= Len(rec.work)
      type == rec.work[rec.wi][1]
      batch == rec.work[rec.wi][2]
      batchId == ContentBatchId(lang, rec.tdiff, type, batch)
      skip == more /\ batchId \in dlBatches
      files == OriginBatchFiles(lang, rec.tdiff, type, batch)
  IN
  /\ variant = "hier"
  /\ rec.op = "content" /\ rec.pc = "batch"
  /\ out \in (IF ~more THEN {"end"} ELSE IF skip THEN {"skip"} ELSE ManifestOutcomes(TRUE))
  /\ Inject(out \in {"fail", "malformed"})
  /\ fetched' = IF out \in {"ok", "malformed"}
                THEN Bump(fetched, BatchManifestUrl(lang, rec.tdiff, type, batch))
                ELSE fetched
  /\ CASE out = "end" /\ rec.li < Len(rec.langs) ->
            /\ SetRun(r, [rec EXCEPT !.pc = "root", !.li = @ + 1])
            /\ UNCHANGED <<downloadProgress, downloadedBatches, isDownloading>>
       [] out = "end" /\ rec.li >= Len(rec.langs) ->
            /\ downloadedBatches' = markBatchDownloaded(downloadedBatches, "hierarchical")
            /\ downloadProgress' =
                 updateDownloadProgress(downloadProgress, "hierarchical", 100)
            /\ isDownloading' = FALSE
            /\ SetRun(r, Finished(rec, "ok"))
       [] out = "skip" ->
            /\ SetRun(r, [rec EXCEPT !.wi = @ + 1])
            /\ UNCHANGED <<downloadProgress, downloadedBatches, isDownloading>>
       [] out \in {"fail", "malformed"} ->
            /\ SetRun(r, [ManifestFailed(rec, out, TRUE) EXCEPT !.wi = @ + 1, !.reqs = @ + 1])
            /\ UNCHANGED <<downloadProgress, downloadedBatches, isDownloading>>
       [] out = "ok" ->
            /\ SetRun(r, [rec EXCEPT !.pc = "chunk", !.reqs = @ + 1, !.batch = batch,
                                     !.files = files, !.ci = 1,
                                     !.fstat = [i \in DOMAIN files |-> "queued"],
                                     !.attempts = [i \in DOMAIN files |-> 0]])
            /\ UNCHANGED <<downloadProgress, downloadedBatches, isDownloading>>
  /\ UNCHANGED <<variant, learningLang, knownLang, difficulty, seenDownloading,
                 rootManifest, languageManifests, dlBatches, downloadedCSVs, fs, calls>>

\* The chunk loop of downloadContentForLanguage: the next chunk is dispatched;
\* after the last one the batch is added to downloader.downloadedBatches and
\* marked in the store.
ContentChunk(r) ==
  LET rec == run[r]
      lang == rec.langs[rec.li]
      batchId == ContentBatchId(lang, rec.tdiff, rec.work[rec.wi][1], rec.work[rec.wi][2])
  IN
  /\ variant = "hier"
  /\ rec.op = "content" /\ rec.pc = "chunk"
  /\ IF rec.ci <= Len(rec.files)
     THEN /\ SetRun(r, Dispatch(rec))
          /\ UNCHANGED <<dlBatches, downloadedBatches>>
     ELSE /\ dlBatches' = dlBatches \cup {batchId}
          /\ downloadedBatches' = markBatchDownloaded(downloadedBatches, batchId)
          /\ SetRun(r, [rec EXCEPT !.pc = "batch", !.wi = @ + 1])
  /\ UNCHANGED <<variant, learningLang, knownLang, difficulty, downloadProgress,
                 isDownloading, seenDownloading, rootManifest, languageManifests,
                 downloadedCSVs, fs, fetched, calls, faults>>

\* ----------------------------------------------- downloadBatch (hierarchical)

\* downloadBatch(batch): the guard, setIsDownloading(true), and the first
\* downloadBatchManifest on its way.
downloadBatch(r, batch) ==
  LET rec == [IdleRun EXCEPT !.op = "batch", !.batch = batch,
                             !.rerun = batch \in Range(downloadedBatches)]
  IN
  /\ variant = "hier"
  /\ Free(r)
  /\ calls < MaxCalls
  /\ calls' = calls + 1
  /\ IF seenDownloading
     THEN /\ SetRun(r, Finished(rec, "skipped"))
          /\ isDownloading' = isDownloading
     ELSE /\ SetRun(r, [rec EXCEPT !.pc = "bman", !.ti = 1])
          /\ isDownloading' = TRUE
  /\ UNCHANGED <<variant, storeVars, seenDownloading, downloaderVars, fs, fetched, faults>>

\* BatchThrow without the finally block.
BatchThrowNoFinally(r, rec) ==
  /\ SetRun(r, Finished(rec, "error"))
  /\ downloadProgress' = updateDownloadProgress(downloadProgress, rec.batch, 0)
  /\ isDownloading' = isDownloading
  /\ UNCHANGED <<downloadedBatches>>

\* The catch and finally of downloadBatch.
BatchThrow(r, rec) ==
  /\ SetRun(r, Finished(rec, "error"))
  /\ downloadProgress' = updateDownloadProgress(downloadProgress, rec.batch, 0)
  /\ isDownloading' = FALSE
  /\ UNCHANGED <<downloadedBatches>>

\* One turn of the loop over manifestTypes: a manifest's files are added to
\* allFiles, a failed fetch is passed over; after the last, the empty check
\* and updateDownloadProgress(batch, 0).
BatchManifests(r, out) ==
  LET rec == run[r]
      lang == IF learningLang # Null THEN learningLang ELSE "en"
      diff == IF difficulty # Null THEN difficulty ELSE "A1"
      type == manifestTypes[rec.ti]
      b == getBatchNumber(rec.batch)
      files == IF out = "ok" THEN rec.files \o OriginBatchFiles(lang, diff, type, b)
               ELSE rec.files
      served == OriginHasBatch(lang, diff, type, b)
      rec2 == [(IF out = "ok" THEN rec ELSE ManifestFailed(rec, out, served))
                 EXCEPT !.reqs = @ + 1, !.files = files]
  IN
  /\ variant = "hier"
  /\ rec.op = "batch" /\ rec.pc = "bman"
  /\ out \in ManifestOutcomes(served)
  /\ Inject(out # "ok" /\ served)
  /\ fetched' = IF out \in {"ok", "malformed"}
                THEN Bump(fetched, BatchManifestUrl(lang, diff, type, b))
                ELSE fetched
  /\ IF rec.ti < Len(manifestTypes)
     THEN /\ SetRun(r, [rec2 EXCEPT !.ti = @ + 1])
          /\ UNCHANGED <<downloadProgress, downloadedBatches, isDownloading>>
     ELSE IF Len(files) = 0
     THEN BatchThrow(r, rec2)
     ELSE /\ SetRun(r, [rec2 EXCEPT !.pc = "chunk", !.ci = 1,
                                    !.fstat = [i \in DOMAIN files |-> "queued"],
                                    !.attempts = [i \in DOMAIN files |-> 0]])
          /\ downloadProgress' = updateDownloadProgress(downloadProgress, rec.batch, 0)
          /\ UNCHANGED <<downloadedBatches, isDownloading>>
  /\ UNCHANGED <<variant, learningLang, knownLang, difficulty, seenDownloading,
                 downloaderVars, fs, calls>>

\* successCount > totalFiles * 0.8
EnoughSucceeded(successCount, totalFiles) == successCount * 10 > totalFiles * 8

\* The chunk loop of downloadBatch and what follows it: the batch is marked
\* when enough files succeeded, else the error path; finally
\* setIsDownloading(false).
BatchChunk(r) ==
  LET rec == run[r] IN
  /\ variant = "hier"
  /\ rec.op = "batch" /\ rec.pc = "chunk"
  /\ IF rec.ci <= Len(rec.files)
     THEN /\ SetRun(r, Dispatch(rec))
          /\ UNCHANGED <<downloadProgress, downloadedBatches, isDownloading>>
     ELSE IF EnoughSucceeded(rec.completed, Len(rec.files))
     THEN /\ downloadedBatches' = markBatchDownloaded(downloadedBatches, rec.batch)
          /\ isDownloading' = FALSE
          /\ SetRun(r, Finished(rec, "ok"))
          /\ UNCHANGED <<downloadProgress>>
     ELSE BatchThrow(r, rec)
  /\ UNCHANGED <<variant, learningLang, knownLang, difficulty, seenDownloading,
                 downloaderVars, fs, fetched, calls, faults>>

\* ------------------------------------- the batch-pack version (part_004)

\* What the origin serves to the batch-pack version: one manifest per
\* (language, difficulty, batch), with the files it lists.
PackServed(lang, diff, batch) ==
  lang \in {"ja", "en"} /\ diff = "A1" /\ batch = "batch001"

PackManifestFiles(lang) ==
  IF lang = "ja"
  THEN << [path |-> "media/audio/s1.mp3", sha256 |-> OriginSha("media/audio/s1.mp3")],
          [path |-> "audio/s2.mp3", sha256 |-> NoSha] >>
  ELSE <<>>

PackDir(lang, diff, batch) == "languages/" \o lang \o "/" \o diff \o "/" \o batch \o "/"

getBatchManifestPath(lang, diff, batch) == PackDir(lang, diff, batch) \o "manifest.json"

contentFiles == <<"words.csv", "sentences.csv", "pictures.csv">>

\* The downloads downloadLanguagePack creates: contentPromises, then
\* audioPromises for the manifest's files whose path includes '/audio/'.
PackDownloads(lang, diff, batch, manifestFiles) ==
  [i \in 1..Len(contentFiles) |->
     [localPath |-> documentDirectory \o PackDir(lang, diff, batch)
                      \o Replace(contentFiles[i], ".csv", "") \o ".csv",
      name |-> contentFiles[i], sha256 |-> NoSha]]
  \o
  [i \in 1..Len(SelectSeq(manifestFiles, LAMBDA f : IndexFrom(f.path, "/audio/", 1) # 0)) |->
     LET f == SelectSeq(manifestFiles, LAMBDA g : IndexFrom(g.path, "/audio/", 1) # 0)[i] IN
     [localPath |-> documentDirectory \o PackDir(lang, diff, batch) \o f.path,
      name |-> f.path, sha256 |-> f.sha256]]

NewPack(lang) ==
  [lang |-> lang, pc |-> "fetch", tries |-> 0, waited |-> <<>>, files |-> <<>>,
   fstat |-> <<>>, attempts |-> <<>>, ci |-> 0, ok |-> FALSE, err |-> "none"]

SetPack(r, p, pk) == run' = [run EXCEPT ![r].packs[p] = pk]

\* downloadBatch(learningLang, knownLang, difficulty, batch): the guard,
\* setIsDownloading(true), and both downloadLanguagePack calls started, each
\* with its manifest fetch on its way.
packDownloadBatch(r, learning, known, diff, batch) ==
  LET rec == [IdleRun EXCEPT !.op = "pack", !.batch = batch, !.tdiff = diff,
                             !.target = learning,
                             !.rerun = getBatchKey(learning, diff, batch)
                                         \in Range(downloadedBatches)]
  IN
  /\ variant = "pack"
  /\ Free(r)
  /\ calls < MaxCalls
  /\ calls' = calls + 1
  /\ IF seenDownloading
     THEN /\ SetRun(r, Finished(rec, "skipped"))
          /\ isDownloading' = isDownloading
     ELSE /\ SetRun(r, [rec EXCEPT !.pc = "packs",
                                   !.packs = <<NewPack(learning), NewPack(known)>>])
          /\ isDownloading' = TRUE
  /\ UNCHANGED <<variant, storeVars, seenDownloading, downloaderVars, fs, fetched, faults>>

\* The catch of downloadLanguagePack: progress reset, false returned.
PackFailed(pk) == [pk EXCEPT !.pc = "done", !.ok = FALSE]

\* fetchWithRetry's wait after failed attempt i (0-based)
RetryDelay(i) == RETRY_DELAY * (i + 1)

\* One attempt of fetchWithRetry(manifestUrl) answers. A failure is retried
\* after a delay until the attempts are used up; a response is parsed, the
\* manifest saved, and every download of the pack is created.
downloadLanguagePack(r, p, out) ==
  LET rec == run[r]
      pk == rec.packs[p]
      served == PackServed(pk.lang, rec.tdiff, rec.batch)
      batchKey == getBatchKey(pk.lang, rec.tdiff, rec.batch)
      files == PackDownloads(pk.lang, rec.tdiff, rec.batch, PackManifestFiles(pk.lang))
  IN
  /\ variant = "pack"
  /\ rec.pc = "packs" /\ p \in DOMAIN rec.packs /\ pk.pc = "fetch"
  /\ out \in (IF served THEN {"ok", "fail", "malformed", "storage"} ELSE {"fail"})
  /\ Inject(served /\ out # "ok")
  /\ fetched' = IF out \in {"ok", "malformed", "storage"}
                THEN Bump(fetched, getBatchManifestPath(pk.lang, rec.tdiff, rec.batch))
                ELSE fetched
  /\ CASE out = "fail" /\ pk.tries < RETRY_ATTEMPTS - 1 ->
            /\ SetRun(r, [rec EXCEPT !.reqs = @ + 1,
                                     !.packs[p] = [pk EXCEPT !.tries = @ + 1,
                                        !.err = IF served THEN "Network" ELSE "NotFound",
                                        !.waited = Append(@, RetryDelay(pk.tries))]])
            /\ UNCHANGED <<downloadProgress, fs>>
       [] out = "ok" ->
            /\ SetRun(r, [rec EXCEPT !.reqs = @ + 1,
                                     !.packs[p] = [pk EXCEPT !.pc = "await", !.files = files,
                                        !.fstat = [i \in DOMAIN files |-> "transfer"],
                                        !.attempts = [i \in DOMAIN files |-> 0],
                                        !.ci = 1]])
            /\ fs' = SetKey(fs, documentDirectory
                                  \o getBatchManifestPath(pk.lang, rec.tdiff, rec.batch), "good")
            /\ UNCHANGED <<downloadProgress>>
       [] OTHER ->
            /\ SetRun(r, [rec EXCEPT !.reqs = @ + 1,
                                     !.packs[p] = [PackFailed(pk) EXCEPT !.err =
                                        CASE out = "malformed" -> "Malformed"
                                          [] out = "storage" -> "Storage"
                                          [] served -> "Network"
                                          [] OTHER -> "NotFound"]])
            /\ downloadProgress' = updateDownloadProgress(downloadProgress, batchKey, 0)
            /\ UNCHANGED <<fs>>
  /\ UNCHANGED <<variant, learningLang, knownLang, difficulty, downloadedBatches,
                 isDownloading, seenDownloading, downloaderVars, calls>>

\* downloadFile, from its creation to its end: ensureDirectoryExists, then
\* FileSystem.downloadAsync(remoteUrl, localPath), which returns (whatever the
\* status) or throws, then the SHA-256 check when one is given.
downloadFile(r, p, i, out) ==
  LET rec == run[r]
      pk == rec.packs[p]
      f == pk.files[i]
      content == CASE out = "ok" -> "good"
                   [] out = "corrupt" -> "corrupt"
                   [] OTHER -> "partial"
  IN
  /\ variant = "pack"
  /\ p \in DOMAIN rec.packs
  /\ i \in DOMAIN pk.fstat /\ pk.fstat[i] = "transfer"
  /\ Inject(out # "ok")
  /\ fs' = IF out = "storage" THEN fs ELSE SetKey(fs, f.localPath, content)
  /\ SetRun(r, [rec EXCEPT
         !.reqs = IF out = "storage" THEN @ ELSE @ + 1,
         !.packs[p].attempts[i] = IF out = "storage" THEN @ ELSE @ + 1,
         !.packs[p].fstat[i] =
            CASE out = "storage" -> "Storage"
              [] out = "neterr" -> "Network"
              [] f.sha256 # NoSha /\ Digest(f.name, content) # f.sha256 -> "Integrity"
              [] OTHER -> "ok"])
  /\ UNCHANGED <<variant, storeVars, isDownloading, seenDownloading, downloaderVars,
                 fetched, calls>>

PackChunk(pk) ==
  {i \in DOMAIN pk.files : pk.ci <= i /\ i < pk.ci + PACK_MAX_CONCURRENT_DOWNLOADS}

\* downloadWithConcurrencyLimit: await Promise.all(chunk) returns when every
\* download of the chunk has, and throws as soon as one of them has failed.
\* After the last chunk: updateDownloadProgress(batchKey, 100), true.
downloadWithConcurrencyLimit(r, p) ==
  LET rec == run[r]
      pk == rec.packs[p]
      batchKey == getBatchKey(pk.lang, rec.tdiff, rec.batch)
      rejected == \E i \in PackChunk(pk) : pk.fstat[i] \notin {"mkdir", "transfer", "ok"}
      fulfilled == \A i \in PackChunk(pk) : pk.fstat[i] = "ok"
      last == pk.ci + PACK_MAX_CONCURRENT_DOWNLOADS > Len(pk.files)
  IN
  /\ variant = "pack"
  /\ rec.pc = "packs" /\ p \in DOMAIN rec.packs /\ pk.pc = "await"
  /\ rejected \/ fulfilled
  /\ IF rejected
     THEN /\ SetPack(r, p, PackFailed(pk))
          /\ downloadProgress' = updateDownloadProgress(downloadProgress, batchKey, 0)
     ELSE IF last
     THEN /\ SetPack(r, p, [pk EXCEPT !.pc = "done", !.ok = TRUE])
          /\ downloadProgress' = updateDownloadProgress(downloadProgress, batchKey, 100)
     ELSE /\ SetPack(r, p, [pk EXCEPT !.ci = @ + PACK_MAX_CONCURRENT_DOWNLOADS])
          /\ UNCHANGED <<downloadProgress>>
  /\ UNCHANGED <<variant, learningLang, knownLang, difficulty, downloadedBatches,
                 isDownloading, seenDownloading, downloaderVars, fs, fetched, calls, faults>>

\* PackJoin marking the key of each pack that succeeded, on its own.
PackJoinMarksEach(r) ==
  LET rec == run[r]
      both == \A p \in DOMAIN rec.packs : rec.packs[p].ok
      one == IF rec.packs[1].ok
             THEN markBatchDownloaded(downloadedBatches,
                                      getBatchKey(rec.packs[1].lang, rec.tdiff, rec.batch))
             ELSE downloadedBatches
  IN
  /\ variant = "pack"
  /\ rec.pc = "packs"
  /\ \A p \in DOMAIN rec.packs : rec.packs[p].pc = "done"
  /\ downloadedBatches' =
       IF rec.packs[2].ok
       THEN markBatchDownloaded(one, getBatchKey(rec.packs[2].lang, rec.tdiff, rec.batch))
       ELSE one
  /\ isDownloading' = FALSE
  /\ SetRun(r, Finished(rec, IF both THEN "ok" ELSE "error"))
  /\ UNCHANGED <<variant, learningLang, knownLang, difficulty, downloadProgress,
                 seenDownloading, downloaderVars, fs, fetched, calls, faults>>

\* await Promise.all([learning pack, known pack]) returns: both keys are
\* marked when both packs succeeded, else the call throws; finally
\* setIsDownloading(false).
PackJoin(r) ==
  LET rec == run[r]
      both == \A p \in DOMAIN rec.packs : rec.packs[p].ok
  IN
  /\ variant = "pack"
  /\ rec.pc = "packs"
  /\ \A p \in DOMAIN rec.packs : rec.packs[p].pc = "done"
  /\ downloadedBatches' =
       IF both
       THEN markBatchDownloaded(
              markBatchDownloaded(downloadedBatches,
                                  getBatchKey(rec.packs[1].lang, rec.tdiff, rec.batch)),
              getBatchKey(rec.packs[2].lang, rec.tdiff, rec.batch))
       ELSE downloadedBatches
  /\ isDownloading' = FALSE
  /\ SetRun(r, Finished(rec, IF both THEN "ok" ELSE "error"))
  /\ UNCHANGED <<variant, learningLang, knownLang, difficulty, downloadProgress,
                 seenDownloading, downloaderVars, fs, fetched, calls, faults>>

\* The hook's clearAllContent: the languages/ directory is deleted.
packClearAllContent ==
  /\ variant = "pack"
  /\ \A r \in Runs : ~Active(r) /\ Free(r)
  /\ \E q \in DOMAIN fs : IndexFrom(q, documentDirectory \o "languages/", 1) = 1
  /\ fs' = [q \in {x \in DOMAIN fs : IndexFrom(x, documentDirectory \o "languages/", 1) # 1}
              |-> fs[q]]
  /\ UNCHANGED <<variant, storeVars, isDownloading, seenDownloading, downloaderVars,
                 fetched, run, calls, faults>>

\* ------------------------------------------------------------ specification

\* What the application and the user do: the store's setters and the calls
\* of the hook's functions.
Calls ==
  \/ \E l \in {"ja"}, k \in {"en"} : setLanguagePair(l, k)
  \/ clearAllContent
  \/ \E r \in Runs, t \in CallTargets, d \in CallDifficulties :
        downloadContentForLanguage(r, t, d)
  \/ \E r \in Runs : downloadBatch(r, "batch01")
  \/ \E r \in Runs : CallerCancels(r)
  \/ \E r \in Runs, l \in {"ja", "fr"} : packDownloadBatch(r, l, "en", "A1", "batch001")
  \/ packClearAllContent

\* What follows by itself: an await returns and the function goes on to its
\* next await; React renders again after a state change.
Awaits ==
  \/ Rerender
  \/ \E r \in Runs, out \in {"ok", "fail", "cached"} : ContentRoot(r, out)
  \/ \E r \in Runs, out \in {"ok", "fail", "skip"} : downloadCSVFiles(r, out)
  \/ \E r \in Runs, out \in {"ok", "fail", "cached"} : downloadLanguageManifest(r, out)
  \/ \E r \in Runs, out \in {"ok", "fail", "malformed", "skip", "end"} : ContentBatch(r, out)
  \/ \E r \in Runs : ContentChunk(r)
  \/ \E r \in Runs, out \in {"ok", "fail", "malformed"} : BatchManifests(r, out)
  \/ \E r \in Runs : BatchChunk(r)
  \/ \E r \in Runs, i \in 1..8, out \in {"ok", "fail"} : FileMkdir(r, i, out)
  \/ \E r \in Runs, i \in 1..8, out \in {"ok", "corrupt", "http5xx", "neterr"} :
        FileTransfer(r, i, out)
  \/ \E r \in Runs : ChunkDone(r)
  \/ \E r \in Runs, p \in 1..2, out \in {"ok", "fail", "malformed", "storage"} :
        downloadLanguagePack(r, p, out)
  \/ \E r \in Runs, p \in 1..2, i \in 1..8, out \in {"ok", "corrupt", "neterr", "storage"} :
        downloadFile(r, p, i, out)
  \/ \E r \in Runs, p \in 1..2 : downloadWithConcurrencyLimit(r, p)
  \/ \E r \in Runs : PackJoin(r)

Next == Calls \/ Awaits

Spec == Init /\ [][Next]_vars


\* ------------------------------------------------- two overlapping calls
\* The hierarchical hook with room for two calls at a time, every fetch and
\* file operation succeeding: what a second call does while the first runs.

InitTwo ==
  /\ variant = "hier"
  /\ learningLang = Null
  /\ knownLang = Null
  /\ difficulty = "A1"
  /\ downloadProgress = EmptyMap
  /\ downloadedBatches = <<>>
  /\ isDownloading = FALSE
  /\ seenDownloading = FALSE
  /\ rootManifest = FALSE
  /\ languageManifests = {}
  /\ dlBatches = {}
  /\ downloadedCSVs = {}
  /\ fs = EmptyMap
  /\ fetched = EmptyMap
  /\ run = [r \in {1, 2} |-> IdleRun]
  /\ calls = 0
  /\ faults = 0

NextTwo ==
  \/ Rerender
  \/ \E r \in Runs : downloadContentForLanguage(r, "ja", "A1")
  \/ \E r \in Runs : downloadBatch(r, "batch01")
  \/ \E r \in Runs, out \in {"ok", "cached"} : ContentRoot(r, out)
  \/ \E r \in Runs, out \in {"ok", "skip"} : downloadCSVFiles(r, out)
  \/ \E r \in Runs, out \in {"ok", "cached"} : downloadLanguageManifest(r, out)
  \/ \E r \in Runs, out \in {"ok", "skip", "end"} : ContentBatch(r, out)
  \/ \E r \in Runs : ContentChunk(r)
  \/ \E r \in Runs, out \in {"ok", "fail"} : BatchManifests(r, out)
  \/ \E r \in Runs : BatchChunk(r)
  \/ \E r \in Runs, i \in 1..8 : FileMkdir(r, i, "ok")
  \/ \E r \in Runs, i \in 1..8 : FileTransfer(r, i, "ok")
  \/ \E r \in Runs : ChunkDone(r)

SpecTwo == InitTwo /\ [][NextTwo]_vars

\* ------------------------------------------------- runs under fairness
\* The hierarchical hook, one call at a time, where a fetch or a file
\* operation may fail but every await returns in the end and React renders
\* after a state change.

InitLive ==
  /\ Init
  /\ variant = "hier"

CallsLive ==
  \/ \E r \in Runs, t \in CallTargets : downloadContentForLanguage(r, t, "A1")
  \/ \E r \in Runs : downloadBatch(r, "batch01")

AwaitsLive ==
  \/ Rerender
  \/ \E r \in Runs, out \in {"ok", "fail", "cached"} : ContentRoot(r, out)
  \/ \E r \in Runs, out \in {"ok", "skip"} : downloadCSVFiles(r, out)
  \/ \E r \in Runs, out \in {"ok", "fail", "cached"} : downloadLanguageManifest(r, out)
  \/ \E r \in Runs, out \in {"ok", "fail", "skip", "end"} : ContentBatch(r, out)
  \/ \E r \in Runs : ContentChunk(r)
  \/ \E r \in Runs, out \in {"ok", "fail"} : BatchManifests(r, out)
  \/ \E r \in Runs : BatchChunk(r)
  \/ \E r \in Runs, i \in 1..8, out \in {"ok", "fail"} : FileMkdir(r, i, out)
  \/ \E r \in Runs, i \in 1..8, out \in {"ok", "neterr"} : FileTransfer(r, i, out)
  \/ \E r \in Runs : ChunkDone(r)

NextLive == CallsLive \/ AwaitsLive

\* A call has not returned, or React has a state change to render: these are
\* the states in which a step of AwaitsLive is enabled.
Pending == (\E r \in Runs : Active(r)) \/ seenDownloading # isDownloading

\* Weak fairness of AwaitsLive, its enabling condition written out as Pending.
SpecLive ==
  /\ InitLive /\ [][NextLive]_vars
  /\ WF_vars(Rerender)
  /\ ([]<>~Pending \/ []<><<AwaitsLive>>_vars)

\* --------------------------------------------- fetchWithRetry on its own
\* fetchWithRetry(url, attempts) of part_004 for every attempt budget from 0
\* to MaxAttempts, whatever each fetch answers.

RetryUrls == {getBatchManifestPath(l, "A1", "batch001") : l \in {"ja", "en"}}

RetryCall(url, attempts) ==
  [op |-> "fetchWithRetry", pc |-> "fetch", url |-> url, budget |-> attempts, i |-> 0,
   waited |-> <<>>, log |-> <<>>, result |-> "none", fstat |-> <<>>, packs |-> <<>>]

InitRetry ==
  /\ variant = "pack"
  /\ learningLang = Null
  /\ knownLang = Null
  /\ difficulty = "A1"
  /\ downloadProgress = EmptyMap
  /\ downloadedBatches = <<>>
  /\ isDownloading = FALSE
  /\ seenDownloading = FALSE
  /\ rootManifest = FALSE
  /\ languageManifests = {}
  /\ dlBatches = {}
  /\ downloadedCSVs = {}
  /\ fs = EmptyMap
  /\ fetched = EmptyMap
  /\ run \in {[r \in {1} |-> RetryCall(u, a)] : u \in RetryUrls, a \in 0..MaxAttempts}
  /\ calls = 0
  /\ faults = 0

\* One turn of the loop: the test i < attempts, then fetch(url) answers. A
\* response with an ok status is returned; a non-ok status or a rejected fetch
\* is thrown on the last attempt, else the wait before the next attempt
\* starts. When the test fails the function falls off its end and returns
\* undefined.
fetchWithRetry(r, out) ==
  LET rec == run[r]
      rec2 == [rec EXCEPT !.log = Append(@, out)]
  IN
  /\ rec.op = "fetchWithRetry" /\ rec.pc = "fetch"
  /\ SetRun(r, CASE rec.i >= rec.budget ->
                       [rec EXCEPT !.pc = "done", !.result = "undefined"]
                  [] out = "ok" -> [rec2 EXCEPT !.pc = "done", !.result = "response"]
                  [] rec.i = rec.budget - 1 -> [rec2 EXCEPT !.pc = "done", !.result = "thrown"]
                  [] OTHER -> [rec2 EXCEPT !.pc = "wait",
                                           !.waited = Append(@, RetryDelay(rec.i))])
  /\ UNCHANGED <<variant, storeVars, isDownloading, seenDownloading, downloaderVars,
                 fs, fetched, calls, faults>>

\* The setTimeout of the wait fires: i++ and the next attempt.
RetryTimer(r) ==
  LET rec == run[r] IN
  /\ rec.op = "fetchWithRetry" /\ rec.pc = "wait"
  /\ SetRun(r, [rec EXCEPT !.pc = "fetch", !.i = @ + 1])
  /\ UNCHANGED <<variant, storeVars, isDownloading, seenDownloading, downloaderVars,
                 fs, fetched, calls, faults>>

NextRetry ==
  \/ \E r \in Runs, out \in {"ok", "http5xx", "neterr"} : fetchWithRetry(r, out)
  \/ \E r \in Runs : RetryTimer(r)

SpecRetry == InitRetry /\ [][NextRetry]_vars

\* ------------------------------------------------------------------- claims

\* A step in which run r adds a batch key to the store's downloadedBatches
\* (the 'hierarchical' key is added from pc "batch" and is not one).
MarksBatch(r) ==
  /\ run[r].pc \in {"chunk", "packs"}
  /\ Len(downloadedBatches') > Len(downloadedBatches)

\* The files of the batch run r is working on: local path, the name its
\* digest is published under, the manifest's sha256, the download's status.
RunFiles(rec) ==
  IF rec.op = "pack"
  THEN UNION { { [localPath |-> rec.packs[p].files[i].localPath,
                  name |-> rec.packs[p].files[i].name,
                  sha256 |-> rec.packs[p].files[i].sha256,
                  status |-> rec.packs[p].fstat[i]] : i \in DOMAIN rec.packs[p].files } :
               p \in DOMAIN rec.packs }
  ELSE { [localPath |-> LocalPath(rec.files[i], rec.batch),
          name |-> rec.files[i].path,
          sha256 |-> rec.files[i].sha256,
          status |-> rec.fstat[i]] : i \in DOMAIN rec.fstat }

\* C1: a batch key is marked downloaded by downloadBatch or
\* downloadContentForLanguage only if every file of the batch's manifest(s)
\* was downloaded successfully.
C1_MarkedOnlyIfAllFilesSucceeded ==
  [][\A r \in Runs :
       (variant = "hier" /\ MarksBatch(r)) =>
          \A f \in RunFiles(run[r]) : f.status = "ok"]_vars

\* What the files of a batch are, and whether each exists at its local path
\* with, when the manifest gives a sha256, the matching digest.
BatchFilesOf(lang, diff, batch) ==
  IF variant = "pack"
  THEN { [localPath |-> f.localPath, name |-> f.name, sha256 |-> f.sha256] :
           f \in Range(PackDownloads(lang, diff, batch, PackManifestFiles(lang))) }
  ELSE UNION { { [localPath |-> LocalPath(f, batch), name |-> f.path, sha256 |-> f.sha256] :
                   f \in Range(OriginBatchFiles(lang, diff, t, batch)) } :
               t \in {x \in Range(manifestTypes) : OriginHasBatch(lang, diff, x, batch)} }

FileIntact(f) ==
  /\ f.localPath \in DOMAIN fs
  /\ f.sha256 # NoSha => Digest(f.name, fs[f.localPath]) = f.sha256

\* C2: isBatchDownloaded(lang, difficulty, batch) is true exactly when every
\* file of the batch's manifest exists at its local path and matches its
\* sha256 when it has one. Stated here is the half the claim singles out: no
\* batch is reported downloaded while one of its files is missing or corrupt.
C2_DownloadedOnlyIfFilesIntact ==
  \A lang \in OriginRootLanguages :
    isBatchDownloaded(lang, "A1", "batch001")
      => \A f \in BatchFilesOf(lang, "A1", "batch001") : FileIntact(f)

\* C3: a file whose downloaded content does not match the sha256 of its
\* manifest entry never leads to its batch being marked downloaded.
C3_MismatchNeverMarked ==
  [][\A r \in Runs :
       MarksBatch(r) =>
          \A f \in RunFiles(run[r]) :
             (f.sha256 # NoSha /\ f.localPath \in DOMAIN fs)
                => Digest(f.name, fs[f.localPath]) = f.sha256]_vars

\* C4: in downloadBatch and downloadContentForLanguage of
\* src/hooks/useDownloader.js, a run never has more than
\* MAX_CONCURRENT_DOWNLOADS downloadAndMapFile operations in flight.
C4_InFlightBounded ==
  \A r \in Runs :
    variant = "hier" => Cardinality(InFlight(run[r])) <= MAX_CONCURRENT_DOWNLOADS

\* C4's case: a full window in flight while a file of the batch still waits.
C4_Witness ==
  \E r \in Runs :
    /\ variant = "hier"
    /\ Cardinality(InFlight(run[r])) = MAX_CONCURRENT_DOWNLOADS
    /\ \E i \in DOMAIN run[r].fstat : run[r].fstat[i] = "queued"

\* C5: downloadLanguagePack never has more than
\* DOWNLOAD_CONFIG.MAX_CONCURRENT_DOWNLOADS downloadFile operations in flight
\* for one language pack.
C5_PackInFlightBounded ==
  \A r \in Runs : \A p \in DOMAIN run[r].packs :
    Cardinality(InFlight(run[r].packs[p])) <= PACK_MAX_CONCURRENT_DOWNLOADS

\* C6: once downloadContentForLanguage has downloaded and marked every batch of
\* (language, difficulty), isBatchDownloaded(language, difficulty, batch) is
\* true for each of those batches.
C6_MarkedIsWhatConsumersRead ==
  \A r \in Runs :
    ( /\ run[r].op = "content" /\ run[r].pc = "done" /\ run[r].result = "ok"
      /\ ContentKeys(run[r].langs, run[r].tdiff) # {}
      /\ ContentKeys(run[r].langs, run[r].tdiff) \subseteq Range(downloadedBatches) )
    => \A l \in Range(run[r].langs) :
         \A w \in Range(WorkFrom(OriginLanguageContent(l), 1)) :
            isBatchDownloaded(l, run[r].tdiff, w[2])

\* C7: a call of downloadContentForLanguage or downloadBatch for a batch key
\* already marked downloaded makes no network request.
C7_RerunMakesNoRequest ==
  \A r \in Runs :
    (run[r].op \in {"content", "batch"} /\ run[r].rerun) => run[r].reqs = 0

\* C8: each manifest (root, language, batch) is fetched successfully at most
\* once on a downloader instance.
C8_ManifestFetchedOnce ==
  variant = "hier" => \A url \in DOMAIN fetched : fetched[url] <= 1

\* C9: no partially written file is observable at its final local path, and a
\* failed download leaves nothing there.
C9_NoPartialFileAtFinalPath ==
  /\ \A q \in DOMAIN fs : fs[q] # "partial"
  /\ \A r \in Runs : \A f \in RunFiles(run[r]) :
        (Settled(f.status) /\ f.status # "ok") => f.localPath \notin DOMAIN fs

\* C10: a content-file download that failed with a transient error (network
\* failure, timeout, 5xx) is reported failed only after RETRY_ATTEMPTS attempts.
C10_TransientFailureRetried ==
  \A r \in Runs :
    /\ \A i \in DOMAIN run[r].fstat :
          run[r].fstat[i] \in {"Network", "Http5xx"} => run[r].attempts[i] = RETRY_ATTEMPTS
    /\ \A p \in DOMAIN run[r].packs : \A i \in DOMAIN run[r].packs[p].fstat :
          run[r].packs[p].fstat[i] \in {"Network", "Http5xx"}
             => run[r].packs[p].attempts[i] = RETRY_ATTEMPTS

\* fetchWithRetry's waits are RETRY_DELAY * 2^i, up to the cap.
ExponentialUpTo(waited, cap) ==
  \A k \in DOMAIN waited :
     waited[k] = IF RETRY_DELAY * 2^(k - 1) < cap THEN RETRY_DELAY * 2^(k - 1) ELSE cap

Dispatched(r, j) ==
  /\ j \in DOMAIN run[r].fstat /\ run[r].fstat[j] = "queued"
  /\ j \in DOMAIN run'[r].fstat /\ run'[r].fstat[j] # "queued"

\* File i of run r, in flight, completes in this step.
Completes(r, i) ==
  /\ i \in DOMAIN run[r].fstat /\ ~Settled(run[r].fstat[i]) /\ run[r].fstat[i] # "queued"
  /\ i \in DOMAIN run'[r].fstat /\ Settled(run'[r].fstat[i])

\* C12: while files of a batch wait, the completion of an in-flight download
\* dispatches the next queued file at once, whatever the other in-flight
\* downloads do (a sliding window).
C12_SlotRefilledAtOnce ==
  [][\A r \in Runs : \A i \in 1..8 :
       (Completes(r, i) /\ \E j \in DOMAIN run[r].fstat : run[r].fstat[j] = "queued")
          => \E j \in DOMAIN run[r].fstat : Dispatched(r, j)]_vars

ProgressOf(key) == IF key \in DOMAIN downloadProgress THEN downloadProgress[key] ELSE 0

\* The percentage of the files of fstat that have completed.
PercentDone(fstat) ==
  (100 * Cardinality({i \in DOMAIN fstat : fstat[i] = "ok"})) \div Len(fstat)

\* C13: during a batch download the store's progress for the batch key is the
\* percentage of the files completed so far, after every file.
C13_ProgressAfterEveryFile ==
  \A r \in Runs :
    /\ (run[r].op = "batch" /\ run[r].pc \in {"await", "chunk"} /\ Len(run[r].fstat) > 0)
          => ProgressOf(run[r].batch) = PercentDone(run[r].fstat)
    /\ \A p \in DOMAIN run[r].packs :
          (run[r].packs[p].pc = "await" /\ Len(run[r].packs[p].fstat) > 0)
            => ProgressOf(getBatchKey(run[r].packs[p].lang, run[r].tdiff, run[r].batch))
                 = PercentDone(run[r].packs[p].fstat)

\* C14: after the caller has cancelled a run, no file of it is dispatched and
\* its batch is not marked downloaded.
C14_NoDispatchAfterCancel ==
  [][\A r \in Runs :
       (run[r].op \in {"content", "batch"} /\ run[r].cancelled)
          => /\ \A j \in 1..8 : ~Dispatched(r, j)
             /\ ~MarksBatch(r)]_vars

\* C15: once a file of a batch has failed with a storage error, no further
\* file of the batch is dispatched and the batch is not marked downloaded.
C15_StorageErrorAbortsBatch ==
  [][\A r \in Runs :
       (\E i \in DOMAIN run[r].fstat : run[r].fstat[i] = "Storage")
          => /\ \A j \in 1..8 : ~Dispatched(r, j)
             /\ ~(variant = "hier" /\ MarksBatch(r))]_vars

\* C16: a manifest whose payload is malformed is fetched once and its failure
\* surfaced, while a network failure of a manifest fetch is retried.
C16_MalformedOnceNetworkRetried ==
  \A r \in Runs :
    /\ run[r].op \in {"content", "batch"} =>
          /\ run[r].merr = "Malformed" => run[r].mtries = 1
          /\ run[r].merr = "Network" => run[r].mtries > 1
    /\ \A p \in DOMAIN run[r].packs :
          /\ run[r].packs[p].err = "Malformed"
                => run[r].packs[p].pc = "done" /\ ~run[r].packs[p].ok
          /\ run[r].packs[p].err = "Network" => Len(run[r].packs[p].waited) >= 1

\* C17: a file that exists and whose manifest entry has no sha256 is reported
\* as an integrity failure neither by downloadFile nor by verifyFile.
C17_NoChecksumNoIntegrityFailure ==
  /\ \A r \in Runs : \A p \in DOMAIN run[r].packs : \A i \in DOMAIN run[r].packs[p].fstat :
        run[r].packs[p].files[i].sha256 = NoSha => run[r].packs[p].fstat[i] # "Integrity"
  /\ \A lang \in OriginRootLanguages : \A f \in BatchFilesOf(lang, "A1", "batch001") :
        ( /\ f.sha256 = NoSha /\ f.name \notin Range(contentFiles)
          /\ f.localPath \in DOMAIN fs /\ fs[f.localPath] = "good" )
           => verifyFile(f.localPath, f.name, f.sha256)

\* C18: a batch whose manifest lists no file is marked downloaded with
\* progress 100 for its key.
C18_EmptyBatchCompleteAt100 ==
  \A lang \in OriginRootLanguages : \A t \in Range(manifestTypes) :
    ( /\ OriginHasBatch(lang, "A1", t, "batch001")
      /\ OriginBatchFiles(lang, "A1", t, "batch001") = << >>
      /\ \E r \in Runs : run[r].op = "content" /\ run[r].pc = "done" /\ run[r].result = "ok"
                            /\ lang \in Range(run[r].langs) /\ run[r].merr = "none" )
    => /\ ContentBatchId(lang, "A1", t, "batch001") \in Range(downloadedBatches)
       /\ ProgressOf(ContentBatchId(lang, "A1", t, "batch001")) = 100

\* The language component of a manifest entry's remote path.
LanguageOf(file) == Part(Split(file.path, "/"), 1)

\* The manifest entries the origin lists for a language.
EntriesOf(lang) ==
  UNION { Range(OriginBatchFiles(lang, "A1", t, "batch001")) :
            t \in {x \in Range(manifestTypes) : OriginHasBatch(lang, "A1", x, "batch001")} }

\* C19: a file being downloaded for one language never has the local path of
\* an entry of another language.
C19_LanguagesHaveDisjointPaths ==
  \A r \in Runs :
    /\ \A i \in InFlight(run[r]) :
          \A l2 \in OriginRootLanguages \ {LanguageOf(run[r].files[i])} :
            \A f2 \in EntriesOf(l2) :
               mapFileToAppStructure(f2, run[r].batch) # TypeError
                 => LocalPath(run[r].files[i], run[r].batch) # LocalPath(f2, run[r].batch)
    /\ \A p \in DOMAIN run[r].packs : \A i \in InFlight(run[r].packs[p]) :
          \A l2 \in OriginRootLanguages \ {run[r].packs[p].lang} :
            \A g \in Range(PackDownloads(l2, run[r].tdiff, run[r].batch, PackManifestFiles(l2))) :
               run[r].packs[p].files[i].localPath # g.localPath

\* C19's case: a file of en in flight while the file of the same name of ja is
\* on disk.
C19_Witness ==
  \E r \in Runs : \E i \in InFlight(run[r]) :
    /\ LanguageOf(run[r].files[i]) = "en"
    /\ \E f2 \in EntriesOf("ja") :
          /\ Replace(f2.path, "/ja/", "/en/") = run[r].files[i].path
          /\ LocalPath(f2, run[r].batch) \in DOMAIN fs

\* C20: mapFileToAppStructure returns a local path for every manifest entry
\* with a path, and never throws.
C20_MapperNeverThrows ==
  \A r \in Runs : \A i \in DOMAIN run[r].fstat : run[r].fstat[i] # "Mapping"

\* C22: downloadContentForLanguage marks 'hierarchical' only when every batch
\* of every requested language is marked downloaded.
C22_HierarchicalOnlyWhenAllBatches ==
  [][\A r \in Runs :
       ( /\ run[r].op = "content" /\ run[r].pc = "batch"
         /\ Len(downloadedBatches') > Len(downloadedBatches) )
       => ContentKeys(run[r].langs, run[r].tdiff) \subseteq Range(downloadedBatches)]_vars

\* C23: every file of a batch is attempted once whatever becomes of the
\* others, and at the end of downloadBatch the files that succeeded and the
\* errors recorded add up to the files of the batch.
C23_EveryFileAttemptedOnce ==
  \A r \in Runs :
    run[r].op \in {"batch", "content"} =>
      /\ (run[r].pc = "chunk" /\ run[r].ci > Len(run[r].files))
            => \A i \in DOMAIN run[r].fstat : Settled(run[r].fstat[i])
      /\ \A i \in DOMAIN run[r].attempts : run[r].attempts[i] <= 1
      /\ (run[r].op = "batch" /\ run[r].pc = "done" /\ run[r].result \in {"ok", "error"})
            => run[r].completed + Len(run[r].errors) = Len(run[r].files)

\* C23's case: downloadBatch has ended with files that failed and files that
\* succeeded.
C23_Witness ==
  \E r \in Runs :
    /\ run[r].op = "batch" /\ run[r].pc = "done"
    /\ Len(run[r].errors) >= 2 /\ run[r].completed >= 1

\* C24: in part_004 a run of downloadBatch ends with both language packs
\* settled, and adds both keys to downloadedBatches when both succeeded and
\* none otherwise; nothing else adds a key.
C24_BothKeysOrNeither ==
  [][variant = "pack" =>
       /\ \A r \in Runs :
            (run[r].op = "pack" /\ run[r].pc = "packs" /\ run'[r].pc = "done")
            => /\ \A p \in DOMAIN run[r].packs : run[r].packs[p].pc = "done"
               /\ downloadedBatches' =
                    IF \A p \in DOMAIN run[r].packs : run[r].packs[p].ok
                    THEN downloadedBatches \o
                           << getBatchKey(run[r].packs[1].lang, run[r].tdiff, run[r].batch),
                              getBatchKey(run[r].packs[2].lang, run[r].tdiff, run[r].batch) >>
                    ELSE downloadedBatches
       /\ Len(downloadedBatches') > Len(downloadedBatches)
            => \E r \in Runs : run[r].pc = "packs" /\ run'[r].pc = "done"]_vars

\* C24's case: one pack failed, the other succeeded, and no key was added.
C24_Witness ==
  \E r \in Runs :
    /\ run[r].op = "pack" /\ run[r].pc = "done" /\ run[r].result = "error"
    /\ ~run[r].packs[1].ok /\ run[r].packs[2].ok
    /\ run[r].packs[2].fstat # <<>>
    /\ downloadedBatches = <<>>

\* C25: at most one download run is active per useDownloader instance, also
\* when two calls are made before the component has rendered again.
C25_AtMostOneActiveRun ==
  Cardinality({r \in Runs : Active(r)}) <= 1

C27_DownloadedMeansProgress100 ==
  \A i \in DOMAIN downloadedBatches : ProgressOf(downloadedBatches[i]) = 100

\* C28: a run that has set isDownloading sets it back to false in the end,
\* whether it succeeds or throws, given that every await returns.
C28_FlagEventuallyCleared == isDownloading ~> ~isDownloading

\* C28 witness: a downloadBatch run that threw has left isDownloading false.
C28_Witness ==
  \E r \in Runs :
    /\ run[r].op = "batch" /\ run[r].pc = "done" /\ run[r].result = "error"
    /\ calls = 1
    /\ ~isDownloading

\* C29: when the language a content run has come to is absent from the root
\* manifest, or does not offer the requested difficulty, the run throws in
\* that step: beyond the root manifest nothing is fetched (no CSV, no
\* language manifest, no batch manifest), the progress of 'hierarchical' is
\* 0, downloadedBatches is as it was and isDownloading is false.
Unavailable(rec) ==
  \/ rec.langs[rec.li] \notin OriginRootLanguages
  \/ rec.tdiff \notin OriginDifficulties(rec.langs[rec.li])

C29_UnavailableFailsBeforeFetching ==
  [][\A r \in Runs :
        (run[r].op = "content" /\ run[r].pc = "root" /\ Unavailable(run[r])) =>
          \/ run'[r].pc = "root"
          \/ /\ run'[r].pc = "done" /\ run'[r].result = "error"
             /\ run'[r].reqs <= run[r].reqs + 1
             /\ \A u \in DOMAIN fetched' :
                   u # RootManifestUrl => u \in DOMAIN fetched /\ fetched'[u] = fetched[u]
             /\ downloadedCSVs' = downloadedCSVs
             /\ languageManifests' = languageManifests
             /\ dlBatches' = dlBatches
             /\ "hierarchical" \in DOMAIN downloadProgress'
             /\ downloadProgress'["hierarchical"] = 0
             /\ downloadedBatches' = downloadedBatches
             /\ isDownloading' = FALSE]_vars

\* C29 witness: a call for "fr" fetched the root manifest, found no such
\* language and threw.
C29_Witness ==
  \E r \in Runs :
    /\ run[r].op = "content" /\ run[r].pc = "done" /\ run[r].result = "error"
    /\ run[r].target = "fr" /\ run[r].reqs = 1
    /\ rootManifest /\ faults = 0
    /\ "hierarchical" \in DOMAIN downloadProgress
    /\ downloadProgress["hierarchical"] = 0
    /\ ~isDownloading

\* C30: downloadedBatches never holds the same key twice.
C30_NoDuplicateKeys ==
  \A i, j \in DOMAIN downloadedBatches :
    i # j => downloadedBatches[i] # downloadedBatches[j]

====
